---- MODULE Spec2Model ----
(***************************************************************************)
(* Model of the tafcha server: the snippet store (internal/storage), the   *)
(* HTTP handlers that publish and retrieve snippets (internal/api), the    *)
(* identifier and expiry helpers (internal/id, internal/expiry) and the    *)
(* configuration check (internal/config).                                  *)
(*                                                                         *)
(* Strings are sequences of character codes (ASCII), byte slices are       *)
(* sequences of byte values.  Time and durations are counted in minutes.   *)
(***************************************************************************)
EXTENDS Integers, Sequences, FiniteSets, TLC

(***************************************************************************)
(* Bounds of the model.                                                    *)
(***************************************************************************)
\* number of POST requests served in one behaviour
NReq == 2
\* number of distinct identifiers the generator is seen to return
NIds == 2
\* number of distinct byte values in request bodies
NBytes == 2
\* the clock stops advancing here
MaxNow == 1
\* largest MAX_CONTENT_SIZE / expiry setting tried for the configuration
MaxCfgSize == 1
MaxCfgExpiry == 1
\* longest text, drawn from ParseChars, that is given to Parse
MaxTextLen == 3
\* largest count of each unit in the durations given to Format
MaxFormat == 2
\* largest duration bound given to Validate
MaxValidate == 2
\* the clock of the cleanup worker's specification stops advancing here
MaxWorkerNow == 3
\* largest CLEANUP_INTERVAL tried
MaxInterval == 2

\* client addresses that send requests
NKeys == 2
\* the parts of a minute that the clock of the rate limiters resolves
WindowParts == 2
\* the last minute of the runs of the rate limiters
MaxRateNow == 1

Req == 1..NReq
Bytes == 1..NBytes

(***************************************************************************)
(* internal/id                                                             *)
(***************************************************************************)
Length == 12

\* "0123456789ABCDEFGHIJKLMNOPQRSTUVWXYZabcdefghijklmnopqrstuvwxyz"
Alphabet ==
    [i \in 1..62 |-> IF i <= 10 THEN 47 + i ELSE IF i <= 36 THEN 54 + i ELSE 60 + i]

\* Faulty variant of isBase62: one range from '0' to 'z', which also takes the
\* punctuation that lies between the digits, the capitals and the small letters.
isBase62_OneRange(c) == c >= 48 /\ c <= 122

isBase62(c) ==
    \/ (c >= 48 /\ c <= 57)
    \/ (c >= 65 /\ c <= 90)
    \/ (c >= 97 /\ c <= 122)

IsValid(id) ==
    IF Len(id) # Length THEN FALSE
    ELSE \A i \in 1..Len(id) : isBase62(id[i])

\* The values Generate is seen to return: Length characters of Alphabet.
\* The pool is small so that two requests can draw the same value.
Generate == {[i \in 1..Length |-> Alphabet[10 + k]] : k \in 1..NIds}

NoID == <<>>

(***************************************************************************)
(* internal/expiry                                                         *)
(***************************************************************************)
Minute == 1
Hour == 60 * Minute

isDigit(c) == c >= 48 /\ c <= 57

\* durationPattern = ^(\d+)([mhdw])$ ; m=109 h=104 d=100 w=119
MatchesDurationPattern(s) ==
    /\ Len(s) >= 2
    /\ \A i \in 1..(Len(s) - 1) : isDigit(s[i])
    /\ s[Len(s)] \in {109, 104, 100, 119}

(***************************************************************************)
(* int and time.Duration are 64-bit two's-complement integers.  A value of *)
(* that width is held as four limbs of 16 bits, least significant first,   *)
(* so that the arithmetic of Parse is carried out at the width of the      *)
(* program.                                                                *)
(***************************************************************************)
LimbBase == 65536

Int64Zero == <<0, 0, 0, 0>>

\* x * k + a on 64 bits (0 <= k, a < 2^15): the low 64 bits and the carry out
MulAdd(x, k, a) ==
    LET p0 == x[1] * k + a
        p1 == x[2] * k + (p0 \div LimbBase)
        p2 == x[3] * k + (p1 \div LimbBase)
        p3 == x[4] * k + (p2 \div LimbBase)
    IN  [limbs |-> <<p0 % LimbBase, p1 % LimbBase, p2 % LimbBase, p3 % LimbBase>>,
         carry |-> p3 \div LimbBase]

\* the product of two int64 values as Go computes it: the low 64 bits
MulWrap(x, k) == MulAdd(x, k, 0).limbs

\* the sign bit of the 64-bit word
IsNegative(x) == x[4] >= LimbBase \div 2

\* -x on 64 bits
Negate(x) ==
    MulAdd(<<LimbBase - 1 - x[1], LimbBase - 1 - x[2],
             LimbBase - 1 - x[3], LimbBase - 1 - x[4]>>, 1, 1).limbs

\* x / k for 0 <= x and 0 < k < 2^15
DivSmall(x, k) ==
    LET r3 == x[4]
        r2 == (r3 % k) * LimbBase + x[3]
        r1 == (r2 % k) * LimbBase + x[2]
        r0 == (r1 % k) * LimbBase + x[1]
    IN  <<r0 \div k, r1 \div k, r2 \div k, r3 \div k>>

\* d / time.Minute for a time.Duration d in nanoseconds: Go's integer division
\* truncates toward zero; the quotient is below 2^28
WholeMinutes(x) ==
    LET mag == IF IsNegative(x) THEN Negate(x) ELSE x
        q   == DivSmall(DivSmall(DivSmall(DivSmall(mag, 1000), 1000), 1000), 60)
        n   == q[2] * LimbBase + q[1]
    IN  IF IsNegative(x) THEN 0 - n ELSE n

\* strconv.Atoi of a string of decimal digits: the int, or a range error when
\* the value does not fit in 63 bits
RECURSIVE Atoi(_)
Atoi(digits) ==
    IF Len(digits) = 0 THEN [v |-> Int64Zero, err |-> ""]
    ELSE LET head == Atoi(SubSeq(digits, 1, Len(digits) - 1))
             next == MulAdd(head.v, 10, digits[Len(digits)] - 48)
         IN  IF head.err # "" \/ next.carry # 0 \/ IsNegative(next.limbs)
             THEN [v |-> Int64Zero, err |-> "value out of range"]
             ELSE [v |-> next.limbs, err |-> ""]

\* the units of unitMultipliers, in minutes
unitMultipliers(u) ==
    CASE u = 109 -> Minute
      [] u = 104 -> Hour
      [] u = 100 -> 24 * Hour
      [] u = 119 -> 7 * 24 * Hour

\* time.Duration(value) * multiplier, in nanoseconds on 64 bits: the
\* multiplier is its minutes times 60 s times 10^9 ns
DurationOf(value, u) ==
    MulWrap(MulWrap(MulWrap(MulWrap(MulWrap(value, unitMultipliers(u)), 60),
                            1000), 1000), 1000)

\* Faulty variant of Parse: the check value <= 0 is missing, so "0m" is
\* accepted as a duration of zero.
Parse_ZeroAccepted(s) ==
    IF s = <<>> THEN [d |-> 0, err |-> "empty duration string"]
    ELSE IF ~MatchesDurationPattern(s) THEN [d |-> 0, err |-> "invalid duration format"]
    ELSE LET value == Atoi(SubSeq(s, 1, Len(s) - 1))
         IN  IF value.err # "" THEN [d |-> 0, err |-> "invalid duration value"]
             ELSE [d |-> WholeMinutes(DurationOf(value.v, s[Len(s)])), err |-> ""]

\* Parse returns (duration, error); err = "" stands for nil.  The duration is
\* given in whole minutes, the resolution of the model's clock.
Parse(s) ==
    IF s = <<>> THEN [d |-> 0, err |-> "empty duration string"]
    ELSE IF ~MatchesDurationPattern(s) THEN [d |-> 0, err |-> "invalid duration format"]
    ELSE LET value == Atoi(SubSeq(s, 1, Len(s) - 1))
         IN  IF value.err # "" THEN [d |-> 0, err |-> "invalid duration value"]
             ELSE IF value.v = Int64Zero
             THEN [d |-> 0, err |-> "duration value must be positive"]
             ELSE [d |-> WholeMinutes(DurationOf(value.v, s[Len(s)])), err |-> ""]

Validate(d, min, max) ==
    IF d < min THEN "duration is less than minimum"
    ELSE IF d > max THEN "duration exceeds maximum"
    ELSE ""

\* the decimal digits of n >= 0
RECURSIVE FormatUint(_)
FormatUint(n) ==
    IF n < 10 THEN <<48 + n>>
    ELSE Append(FormatUint(n \div 10), 48 + (n % 10))

\* fmt.Sprintf("%d", n)
FormatInt(n) == IF n < 0 THEN <<45>> \o FormatUint(0 - n) ELSE FormatUint(n)

\* Faulty variant of Format: the hour is tried before the day and the week, so
\* a whole number of days is rendered in hours.
Format_HourFirst(d) ==
    IF d >= Hour /\ d % Hour = 0
    THEN Append(FormatInt(d \div Hour), 104)
    ELSE IF d >= 7 * 24 * Hour /\ d % (7 * 24 * Hour) = 0
    THEN Append(FormatInt(d \div (7 * 24 * Hour)), 119)
    ELSE IF d >= 24 * Hour /\ d % (24 * Hour) = 0
    THEN Append(FormatInt(d \div (24 * Hour)), 100)
    ELSE Append(FormatInt(d \div Minute), 109)

\* Format of a duration of d whole minutes.  Each quotient is taken of a
\* positive d, and d / time.Minute of a whole number of minutes is exact.
Format(d) ==
    IF d >= 7 * 24 * Hour /\ d % (7 * 24 * Hour) = 0
    THEN Append(FormatInt(d \div (7 * 24 * Hour)), 119)
    ELSE IF d >= 24 * Hour /\ d % (24 * Hour) = 0
    THEN Append(FormatInt(d \div (24 * Hour)), 100)
    ELSE IF d >= Hour /\ d % Hour = 0
    THEN Append(FormatInt(d \div Hour), 104)
    ELSE Append(FormatInt(d \div Minute), 109)

(***************************************************************************)
(* internal/config                                                         *)
(***************************************************************************)
\* The settings tried: DatabaseURL and Port are held at valid values.
ConfigCandidates ==
    [MaxContentSize : 0..MaxCfgSize,
     DefaultExpiry  : 0..MaxCfgExpiry,
     MinExpiry      : 0..MaxCfgExpiry,
     MaxExpiry      : 1..MaxCfgExpiry]

ConfigValidate(c) ==
    IF c.MaxContentSize < 1 THEN "MAX_CONTENT_SIZE must be positive"
    ELSE IF c.MinExpiry > c.MaxExpiry THEN "MIN_EXPIRY cannot be greater than MAX_EXPIRY"
    ELSE IF c.DefaultExpiry < c.MinExpiry \/ c.DefaultExpiry > c.MaxExpiry
         THEN "DEFAULT_EXPIRY must be between MIN_EXPIRY and MAX_EXPIRY"
    ELSE ""

(***************************************************************************)
(* internal/api: error responses (cleanup.go holds the error helpers)      *)
(***************************************************************************)
writeError(statusCode, code, message) ==
    [status |-> statusCode, code |-> code, message |-> message]

notFound == writeError(404, "NOT_FOUND", "snippet not found or expired")

payloadTooLarge == writeError(413, "PAYLOAD_TOO_LARGE", "content exceeds maximum size")

internalError == writeError(500, "INTERNAL_ERROR", "an internal error occurred")

invalidExpiry(message) == writeError(400, "INVALID_EXPIRY", message)

emptyContent == writeError(400, "EMPTY_CONTENT", "content cannot be empty")

invalidID == writeError(400, "INVALID_ID", "invalid snippet ID format")

(***************************************************************************)
(* State                                                                   *)
(***************************************************************************)
VARIABLES
    cfg,      \* the Config the process was started with
    now,      \* the clock (time.Now() in the handlers, NOW() in the database)
    rows,     \* the snippets table: a set of rows
    req,      \* req[r]: the locals and the response of POST request r
    getResp,  \* the response to a GET /{id} answered in the current state, with the
              \* id asked; any later step clears it
    worker,   \* the CleanupWorker, its goroutine and the main goroutine that stops it
    ret,      \* the Repository call that returned in the current state, with its
              \* arguments and results; any later step clears it
    call,     \* a call of a function of internal/expiry or internal/id, or of
              \* handleCreate as a whole: its arguments and its results; for a
              \* request served through its route, the client and the answer
    limiter   \* the rate limiters of the two route groups and their clock

vars == <<cfg, now, rows, req, getResp, worker, ret, call, limiter>>

\* the variables that the request handlers never touch
others == <<worker, ret, call, limiter>>

NoSnippet == [ID |-> NoID, Content |-> <<>>, ExpiresAt |-> -1, CreatedAt |-> -1]

NoResp == [status |-> 0, code |-> "", message |-> "", id |-> NoID, expires_at |-> -1]

\* a POST request that has not arrived yet
NewReq ==
    [pc |-> "idle", expiryStr |-> <<>>, body |-> <<>>, expiryDuration |-> 0,
     content |-> <<>>, snippetID |-> NoID, expiresAt |-> -1, err |-> "none",
     snippet |-> NoSnippet, resp |-> NoResp]

NoGet == [id |-> NoID, status |-> 0, code |-> "", message |-> "", body |-> <<>>]

\* NewCleanupWorker: both channels open, no goroutine yet.  pc is the position
\* of the worker goroutine, main that of the goroutine that calls Start and
\* Stop.  ticker, since and tickC are the time.Ticker of run: its state, the
\* time it was made and the number of ticks waiting in its channel (0 or 1).
\* sweeps counts the DeleteExpired calls made, failed those that returned an
\* error, taken the ticks received; count and err are what the last call
\* returned.  second is the position of a second goroutine that calls Stop,
\* panic the runtime panic that ended the process, if any.
NewCleanupWorker(interval) ==
    [interval |-> interval, pc |-> "new", main |-> "init", second |-> "idle",
     stopCh |-> "open", doneCh |-> "open", panic |-> "none",
     ticker |-> "none", since |-> 0, tickC |-> 0,
     sweeps |-> 0, failed |-> 0, taken |-> 0, count |-> 0, err |-> "none"]

\* no Repository call returned in this state.  afterSweep tells that the call
\* followed at once a DeleteExpired call that returned no error.
NoRet ==
    [op |-> "none", id |-> NoID, ok |-> TRUE, err |-> "none", count |-> 0,
     snippet |-> NoSnippet, afterSweep |-> FALSE]

\* the Repository call that returned before the next one was a successful
\* DeleteExpired
SweepReturned(r) == r.op = "DeleteExpired" /\ r.err = "nil"

NoCall == [fn |-> "none"]

\* the process serves requests only when config.Load succeeded
Serving == ConfigValidate(cfg) = ""

(***************************************************************************)
(* Request inputs                                                          *)
(***************************************************************************)
RECURSIVE SeqsUpTo(_, _)
SeqsUpTo(S, n) ==
    IF n = 0 THEN {<<>>}
    ELSE LET shorter == SeqsUpTo(S, n - 1)
         IN  shorter \cup {Append(q, b) : q \in shorter, b \in S}

\* request bodies: every byte string up to two bytes above the largest limit
Bodies == SeqsUpTo(Bytes, MaxCfgSize + 2)

\* the ?expiry= values tried: absent, "1m", "2m", "3m", "0m", "1s", "m"
ExpiryTexts ==
    {<<>>, <<49, 109>>, <<50, 109>>, <<51, 109>>, <<48, 109>>, <<49, 115>>, <<109>>}

\* GET /{id} paths tried: the generated ids and "not-12-chars"
GetIds ==
    Generate \cup {<<110, 111, 116, 45, 49, 50, 45, 99, 104, 97, 114, 115>>}

(***************************************************************************)
(* internal/storage: PostgresRepository.  Each method runs one SQL         *)
(* statement, which the database executes atomically at its own NOW() = t. *)
(* ok = FALSE stands for a failed or timed-out statement.                  *)
(***************************************************************************)
\* Faulty variant of Create: the table has no PRIMARY KEY on id, so the INSERT
\* never conflicts.
Create_NoPrimaryKey(table, id, content, expiresAt, t, ok) ==
    IF ~ok THEN [rows |-> table, snippet |-> NoSnippet, err |-> "io"]
    ELSE [rows |-> table \cup {[id |-> id, content |-> content,
                                expires_at |-> expiresAt, created_at |-> t]},
          snippet |-> [ID |-> id, Content |-> content,
                       ExpiresAt |-> expiresAt, CreatedAt |-> t],
          err |-> "nil"]

\* Faulty variant of Create: INSERT ... ON CONFLICT (id) DO UPDATE, which
\* overwrites the row of a taken id and reports success.
Create_Upsert(table, id, content, expiresAt, t, ok) ==
    IF ~ok THEN [rows |-> table, snippet |-> NoSnippet, err |-> "io"]
    ELSE [rows |-> {x \in table : x.id # id}
                   \cup {[id |-> id, content |-> content,
                          expires_at |-> expiresAt, created_at |-> t]},
          snippet |-> [ID |-> id, Content |-> content,
                       ExpiresAt |-> expiresAt, CreatedAt |-> t],
          err |-> "nil"]

\* Faulty variant of Create: the id is unique among the live rows only, as
\* if an expired row of the same id were removed by the INSERT.
Create_LiveOnly(table, id, content, expiresAt, t, ok) ==
    IF ~ok THEN [rows |-> table, snippet |-> NoSnippet, err |-> "io"]
    ELSE IF \E x \in table : x.id = id /\ x.expires_at > t
    THEN [rows |-> table, snippet |-> NoSnippet, err |-> "duplicate"]
    ELSE [rows |-> {x \in table : x.id # id}
                   \cup {[id |-> id, content |-> content,
                          expires_at |-> expiresAt, created_at |-> t]},
          snippet |-> [ID |-> id, Content |-> content,
                       ExpiresAt |-> expiresAt, CreatedAt |-> t],
          err |-> "nil"]

\* INSERT INTO snippets (id, content, expires_at, created_at)
\* VALUES ($1, $2, $3, NOW()) RETURNING created_at     -- id is the PRIMARY KEY
Create(table, id, content, expiresAt, t, ok) ==
    IF ~ok THEN [rows |-> table, snippet |-> NoSnippet, err |-> "io"]
    ELSE IF \E x \in table : x.id = id
    THEN [rows |-> table, snippet |-> NoSnippet, err |-> "duplicate"]
    ELSE [rows |-> table \cup {[id |-> id, content |-> content,
                                expires_at |-> expiresAt, created_at |-> t]},
          snippet |-> [ID |-> id, Content |-> content,
                       ExpiresAt |-> expiresAt, CreatedAt |-> t],
          err |-> "nil"]

\* SELECT ... FROM snippets WHERE id = $1 AND expires_at > NOW()
Get(table, id, t, ok) ==
    IF ~ok THEN [snippet |-> NoSnippet, err |-> "io"]
    ELSE LET hit == {x \in table : x.id = id /\ x.expires_at > t}
         IN  IF hit = {} THEN [snippet |-> NoSnippet, err |-> "nil"]
             ELSE LET x == CHOOSE y \in hit : TRUE
                  IN  [snippet |-> [ID |-> x.id, Content |-> x.content,
                                    ExpiresAt |-> x.expires_at,
                                    CreatedAt |-> x.created_at],
                       err |-> "nil"]

\* Faulty variant of Delete: a soft delete, UPDATE snippets SET expires_at =
\* NOW() WHERE id = $1, which leaves the row to the sweep.
Delete_Soft(table, id, t, ok) ==
    IF ~ok THEN [rows |-> table, err |-> "io"]
    ELSE [rows |-> {IF x.id = id THEN [x EXCEPT !.expires_at = t] ELSE x : x \in table},
          err  |-> "nil"]

\* DELETE FROM snippets WHERE id = $1; no error when no row has the id
Delete(table, id, t, ok) ==
    IF ~ok THEN [rows |-> table, err |-> "io"]
    ELSE [rows |-> {x \in table : x.id # id}, err |-> "nil"]

\* Faulty variant of DeleteExpired: WHERE expires_at < NOW(), which leaves the
\* entries that expire at this very instant.
DeleteExpired_Before(table, t, ok) ==
    IF ~ok THEN [rows |-> table, count |-> 0, err |-> "io"]
    ELSE [rows  |-> {x \in table : ~(x.expires_at < t)},
          count |-> Cardinality({x \in table : x.expires_at < t}),
          err   |-> "nil"]

\* Faulty variant of DeleteExpired: the expired rows are counted but stay in
\* the table.
DeleteExpired_CountOnly(table, t, ok) ==
    IF ~ok THEN [rows |-> table, count |-> 0, err |-> "io"]
    ELSE [rows  |-> table,
          count |-> Cardinality({x \in table : x.expires_at <= t}),
          err   |-> "nil"]

\* DELETE FROM snippets WHERE expires_at <= NOW(); returns RowsAffected, or
\* (0, err) when the statement failed
DeleteExpired(table, t, ok) ==
    IF ~ok THEN [rows |-> table, count |-> 0, err |-> "io"]
    ELSE [rows  |-> {x \in table : ~(x.expires_at <= t)},
          count |-> Cardinality({x \in table : x.expires_at <= t}),
          err   |-> "nil"]

(***************************************************************************)
(* internal/api: handlers                                                  *)
(***************************************************************************)
\* Faulty variant of LimitedRead: the reader stops one byte early, as when the
\* limit is given without the + 1, so a body one byte too long is cut to fit.
LimitedRead_OneShort(body, n) ==
    SubSeq(body, 1, IF Len(body) < n - 1 THEN Len(body) ELSE n - 1)

\* io.ReadAll(io.LimitReader(r.Body, n))
LimitedRead(body, n) ==
    SubSeq(body, 1, IF Len(body) < n THEN Len(body) ELSE n)

\* the handler returns early with an error response; no later local is set
Reject(e) ==
    [NewReq EXCEPT !.pc = "done",
                   !.resp = [status |-> e.status, code |-> e.code,
                             message |-> e.message, id |-> NoID, expires_at |-> -1]]

\* Faulty variant of handleCreateBegin: the id is generated first, before the
\* expiry and the body are checked, so a rejected request has allocated an id.
handleCreateBegin_GenerateFirst(c, expiryStr, body, readOK, gen, t) ==
    LET parsed == Parse(expiryStr)
        given == expiryStr # <<>>
        range == Validate(parsed.d, c.MinExpiry, c.MaxExpiry)
        expiryDuration == IF given THEN parsed.d ELSE c.DefaultExpiry
        content == SubSeq(body, 1, IF Len(body) < c.MaxContentSize + 1
                                   THEN Len(body) ELSE c.MaxContentSize + 1)
        rejected(e) ==
            [NewReq EXCEPT !.pc = "done", !.snippetID = gen,
                           !.resp = [status |-> e.status, code |-> e.code,
                                     message |-> e.message, id |-> NoID,
                                     expires_at |-> -1]]
    IN  IF gen = NoID THEN rejected(internalError)
        ELSE IF given /\ parsed.err # "" THEN rejected(invalidExpiry(parsed.err))
        ELSE IF given /\ range # "" THEN rejected(invalidExpiry(range))
        ELSE IF ~readOK THEN rejected(internalError)
        ELSE IF Len(content) > c.MaxContentSize THEN rejected(payloadTooLarge)
        ELSE IF Len(content) = 0 THEN rejected(emptyContent)
        ELSE [NewReq EXCEPT !.pc = "create", !.expiryStr = expiryStr, !.body = body,
                            !.expiryDuration = expiryDuration, !.content = content,
                            !.snippetID = gen, !.expiresAt = t + expiryDuration]

\* handleCreate up to the call of repo.Create: resolve the expiry, read and
\* check the body, generate the id (gen = NoID: Generate failed), read the clock.
handleCreateBegin(c, expiryStr, body, readOK, gen, t) ==
    LET parsed == Parse(expiryStr)
        given == expiryStr # <<>>
        range == Validate(parsed.d, c.MinExpiry, c.MaxExpiry)
        expiryDuration == IF given THEN parsed.d ELSE c.DefaultExpiry
        content == LimitedRead(body, c.MaxContentSize + 1)
    IN  IF given /\ parsed.err # "" THEN Reject(invalidExpiry(parsed.err))
        ELSE IF given /\ range # "" THEN Reject(invalidExpiry(range))
        ELSE IF ~readOK THEN Reject(internalError)
        ELSE IF Len(content) > c.MaxContentSize THEN Reject(payloadTooLarge)
        ELSE IF Len(content) = 0 THEN Reject(emptyContent)
        ELSE IF gen = NoID THEN Reject(internalError)
        ELSE [NewReq EXCEPT !.pc = "create", !.expiryStr = expiryStr, !.body = body,
                            !.expiryDuration = expiryDuration, !.content = content,
                            !.snippetID = gen, !.expiresAt = t + expiryDuration]

\* handleCreate from the return of repo.Create: any error is a 500, success a 201
handleCreateEnd(q, res) ==
    IF res.err # "nil"
    THEN [q EXCEPT !.pc = "done", !.err = res.err,
                   !.resp = [status |-> internalError.status, code |-> internalError.code,
                             message |-> internalError.message, id |-> NoID,
                             expires_at |-> -1]]
    ELSE [q EXCEPT !.pc = "done", !.err = res.err, !.snippet = res.snippet,
                   !.resp = [status |-> 201, code |-> "", message |-> "",
                             id |-> res.snippet.ID,
                             expires_at |-> res.snippet.ExpiresAt]]

\* handleCreate as a whole, for a request that runs alone: the store call
\* follows at the same clock value.  Gives the request's final locals and
\* response and the table it leaves.
handleCreate(c, table, expiryStr, body, readOK, gen, storeOK, t) ==
    LET q == handleCreateBegin(c, expiryStr, body, readOK, gen, t)
    IN  IF q.pc = "done" THEN [req |-> q, rows |-> table]
        ELSE LET res == Create(table, q.snippetID, q.content, q.expiresAt, t, storeOK)
             IN  [req |-> handleCreateEnd(q, res), rows |-> res.rows]

\* handleGet: shape check, repo.Get, response
handleGet(table, id, t, ok) ==
    IF ~IsValid(id) THEN invalidID @@ [body |-> <<>>]
    ELSE LET res == Get(table, id, t, ok)
         IN  IF res.err # "nil" THEN internalError @@ [body |-> <<>>]
             ELSE IF res.snippet = NoSnippet THEN notFound @@ [body |-> <<>>]
             ELSE [status |-> 200, code |-> "", message |-> "",
                   body |-> res.snippet.Content]

(***************************************************************************)
(* internal/api: the routes.  Each of the two route groups has a rate      *)
(* limiter of its own in front of its handler, keyed by the client's       *)
(* address, with a window of one minute.  The limiter is the library       *)
(* go-chi/httprate; what it does is taken from the specification of the    *)
(* admission controller: a count per client in the current window, windows *)
(* that begin on the minute, counters of older windows dropped on access.  *)
(***************************************************************************)
Keys == 1..NKeys

\* config.Load: POST_RATE_LIMIT and GET_RATE_LIMIT when the environment sets
\* none
DefaultPostRateLimit == 30
DefaultGetRateLimit == 300

\* httprate.LimitByIP(requestLimit, time.Minute): window[k] is the minute of
\* the last window in which client k was seen, count[k] its count in it
LimitByIP(requestLimit) ==
    [limit |-> requestLimit, window |-> [k \in Keys |-> 0], count |-> [k \in Keys |-> 0]]

\* the limiter's decision on a request of client key at minute t, part being
\* the part of the minute that has passed: denied when the count of the
\* current window has reached the limit, with the time left to the end of the
\* window; allowed and counted otherwise
allow(l, key, t, part) ==
    LET cur == IF l.window[key] = t THEN l.count[key] ELSE 0
    IN  IF cur >= l.limit
        THEN [allowed |-> FALSE, retryAfter |-> WindowParts - part,
              limiter |-> [l EXCEPT !.window[key] = t, !.count[key] = cur]]
        ELSE [allowed |-> TRUE, retryAfter |-> 0,
              limiter |-> [l EXCEPT !.window[key] = t, !.count[key] = cur + 1]]

\* the answer of the limiter to a request it denies
tooManyRequests == writeError(429, "", "Too Many Requests")

\* Faulty variant of setupRoutes: the POST group is given GetRateLimit and the
\* GET group PostRateLimit.
setupRoutes_Swapped(post, get) ==
    [part |-> 0, post |-> LimitByIP(get), get |-> LimitByIP(post)]

\* setupRoutes: POST / behind LimitByIP(PostRateLimit, time.Minute), GET /{id}
\* behind LimitByIP(GetRateLimit, time.Minute).  part is the part of the
\* current minute that has passed on the clock the limiters read.
setupRoutes(post, get) ==
    [part |-> 0, post |-> LimitByIP(post), get |-> LimitByIP(get)]

(***************************************************************************)
(* Actions                                                                 *)
(***************************************************************************)
Init ==
    /\ cfg \in ConfigCandidates
    /\ now = 0
    /\ rows = {}
    /\ req = [r \in Req |-> NewReq]
    /\ getResp = NoGet
    /\ worker = NewCleanupWorker(1)
    /\ ret = NoRet
    /\ call = NoCall
    /\ limiter = setupRoutes(DefaultPostRateLimit, DefaultGetRateLimit)

\* Time passes.  The handler's time.Now() and the database's NOW() are two
\* reads of the clock; a Tick between them stands for whatever time elapses
\* between the two reads.
Tick ==
    /\ now < MaxNow
    /\ now' = now + 1
    /\ getResp' = NoGet
    /\ UNCHANGED <<cfg, rows, req>>
    /\ UNCHANGED others

\* POST / arrives and is handled up to the store call
HandleCreateBegin(r) ==
    /\ Serving
    /\ req[r].pc = "idle"
    /\ \E expiryStr \in ExpiryTexts, body \in Bodies, readOK \in BOOLEAN,
          gen \in Generate \cup {NoID} :
          req' = [req EXCEPT ![r] = handleCreateBegin(cfg, expiryStr, body, readOK, gen, now)]
    /\ getResp' = NoGet
    /\ UNCHANGED <<cfg, now, rows>>
    /\ UNCHANGED others

\* the INSERT of request r executes and the handler answers
HandleCreateStore(r) ==
    /\ req[r].pc = "create"
    /\ \E ok \in BOOLEAN :
          LET res == Create(rows, req[r].snippetID, req[r].content,
                            req[r].expiresAt, now, ok)
          IN  /\ rows' = res.rows
              /\ req' = [req EXCEPT ![r] = handleCreateEnd(req[r], res)]
    /\ getResp' = NoGet
    /\ UNCHANGED <<cfg, now>>
    /\ UNCHANGED others

\* GET /{id}
HandleGet ==
    /\ Serving
    /\ \E id \in GetIds, ok \in BOOLEAN :
          getResp' = [id |-> id] @@ handleGet(rows, id, now, ok)
    /\ UNCHANGED <<cfg, now, rows, req>>
    /\ UNCHANGED others

\* the cleanup worker's sweep: one DeleteExpired call
Cleanup ==
    /\ Serving
    /\ \E ok \in BOOLEAN : rows' = DeleteExpired(rows, now, ok).rows
    /\ getResp' = NoGet
    /\ UNCHANGED <<cfg, now, req>>
    /\ UNCHANGED others

Next ==
    \/ Tick
    \/ \E r \in Req : HandleCreateBegin(r)
    \/ \E r \in Req : HandleCreateStore(r)
    \/ HandleGet
    \/ Cleanup

Spec == Init /\ [][Next]_vars

(***************************************************************************)
(* The functions of internal/expiry and internal/id and the handler of     *)
(* POST / taken one call at a time: CallSpec draws the arguments of one    *)
(* call and applies the function to them.                                  *)
(***************************************************************************)
\* the text of a number given by its decimal digits, followed by a unit letter
Text(digits, u) ==
    [i \in 1..(Len(digits) + 1) |-> IF i <= Len(digits) THEN 48 + digits[i] ELSE u]

\* 0 1 9 m h d w M x - . and the blank
ParseChars == {48, 49, 57, 109, 104, 100, 119, 77, 120, 45, 46, 32}

\* 2^54 + 1, 2^54, 2^63 - 1 and 2^63; 2^54 minutes are 0 modulo 2^64 ns
LongTexts ==
    { <<49, 100, 49, 50, 104>>,                                       \* "1d12h"
      <<49, 48, 32, 109>>,                                            \* "10 m"
      Text(<<1,5,3,7,2,2,8,6,7>>, 109),
      Text(<<1,5,3,7,2,2,8,6,8>>, 109),
      Text(<<1,5,2,5,0>>, 119),
      Text(<<1,5,2,5,1>>, 119),
      Text(<<1,8,0,1,4,3,9,8,5,0,9,4,8,1,9,8,5>>, 109),
      Text(<<1,8,0,1,4,3,9,8,5,0,9,4,8,1,9,8,4>>, 109),
      Text(<<9,2,2,3,3,7,2,0,3,6,8,5,4,7,7,5,8,0,7>>, 109),
      Text(<<9,2,2,3,3,7,2,0,3,6,8,5,4,7,7,5,8,0,8>>, 109),
      Text(<<9,9,9,9,9,9,9,9,9,9,9,9,9,9,9,9,9,9,9,9>>, 104),
      Text(<<0,0,0,0,0,0,0,0,0,0,0,0,0,0,0,0,0,0,0,7>>, 100) }

ParseTexts == SeqsUpTo(ParseChars, MaxTextLen) \cup LongTexts

ValidateDurations == (0 - 1)..(MaxValidate + 1)

\* sums of up to MaxFormat weeks, days, hours and minutes, zero, two negative
\* durations and the largest whole number of minutes of a time.Duration
FormatDurations ==
    {a * 7 * 24 * Hour + b * 24 * Hour + c * Hour + e * Minute :
        a \in 0..MaxFormat, b \in 0..MaxFormat, c \in 0..MaxFormat, e \in 0..MaxFormat}
    \cup {0 - Minute, 0 - Hour, 153722867}

\* twelve, eleven and thirteen letters 'a' with one character replaced by each
\* ASCII character in turn, and the empty string
IdTexts ==
    {[i \in 1..n |-> IF i = k THEN c ELSE 97] :
        n \in {Length - 1, Length, Length + 1}, k \in 1..(Length + 1), c \in 0..127}
    \cup {<<>>}

\* the ?expiry= values of the publish calls: those of ExpiryTexts and 2^54 + 1
\* minutes
PublishTexts ==
    ExpiryTexts \cup {Text(<<1,8,0,1,4,3,9,8,5,0,9,4,8,1,9,8,5>>, 109)}

\* the table before a publish call: empty, or holding the first generated id
PublishTables ==
    { {},
      {[id |-> [i \in 1..Length |-> Alphabet[11]], content |-> <<1>>,
        expires_at |-> MaxNow + 1, created_at |-> 0]} }

CallInit ==
    /\ cfg \in {c \in ConfigCandidates : ConfigValidate(c) = ""}
    /\ now = 0
    /\ rows \in PublishTables
    /\ req = [r \in Req |-> NewReq]
    /\ getResp = NoGet
    /\ worker = NewCleanupWorker(1)
    /\ ret = NoRet
    /\ call = NoCall
    /\ limiter = setupRoutes(DefaultPostRateLimit, DefaultGetRateLimit)

CallParse ==
    /\ call = NoCall
    /\ \E s \in ParseTexts :
          call' = [fn |-> "Parse", arg |-> s, out |-> Parse(s)]
    /\ UNCHANGED <<cfg, now, rows, req, getResp, worker, ret, limiter>>

CallValidate ==
    /\ call = NoCall
    /\ \E d \in ValidateDurations, min \in 0..MaxValidate, max \in 0..MaxValidate :
          call' = [fn |-> "Validate", arg |-> [d |-> d, min |-> min, max |-> max],
                   out |-> Validate(d, min, max)]
    /\ UNCHANGED <<cfg, now, rows, req, getResp, worker, ret, limiter>>

CallFormat ==
    /\ call = NoCall
    /\ \E d \in FormatDurations :
          call' = [fn |-> "Format", arg |-> d, out |-> Format(d)]
    /\ UNCHANGED <<cfg, now, rows, req, getResp, worker, ret, limiter>>

CallIsValid ==
    /\ call = NoCall
    /\ \E id \in IdTexts :
          call' = [fn |-> "IsValid", arg |-> id, out |-> IsValid(id)]
    /\ UNCHANGED <<cfg, now, rows, req, getResp, worker, ret, limiter>>

\* one POST / handled from arrival to response
CallHandleCreate ==
    /\ call = NoCall
    /\ \E expiryStr \in PublishTexts, body \in Bodies, readOK \in BOOLEAN,
          gen \in Generate \cup {NoID}, storeOK \in BOOLEAN :
          LET out == handleCreate(cfg, rows, expiryStr, body, readOK, gen, storeOK, now)
          IN  /\ call' = [fn |-> "handleCreate",
                          arg |-> [table |-> rows, expiryStr |-> expiryStr, body |-> body,
                                   readOK |-> readOK, gen |-> gen, storeOK |-> storeOK],
                          out |-> out.req]
              /\ rows' = out.rows
    /\ UNCHANGED <<cfg, now, req, getResp, worker, ret, limiter>>

CallNext ==
    \/ CallParse
    \/ CallValidate
    \/ CallFormat
    \/ CallIsValid
    \/ CallHandleCreate

CallSpec == CallInit /\ [][CallNext]_vars

(***************************************************************************)
(* The Repository taken alone: StoreSpec interleaves calls of Create, Get, *)
(* Delete and DeleteExpired, each one SQL statement, with the passing of   *)
(* time.                                                                   *)
(***************************************************************************)
\* config.Load with no setting in the environment, at the scale of the model
DefaultConfig ==
    [MaxContentSize |-> MaxCfgSize, DefaultExpiry |-> MaxCfgExpiry,
     MinExpiry |-> 0, MaxExpiry |-> MaxCfgExpiry]

StoreInit ==
    /\ cfg = DefaultConfig
    /\ now = 0
    /\ rows = {}
    /\ req = [r \in Req |-> NewReq]
    /\ getResp = NoGet
    /\ worker = NewCleanupWorker(1)
    /\ ret = NoRet
    /\ call = NoCall
    /\ limiter = setupRoutes(DefaultPostRateLimit, DefaultGetRateLimit)

StoreTick ==
    /\ now < MaxNow
    /\ now' = now + 1
    /\ ret' = NoRet
    /\ UNCHANGED <<cfg, rows, req, getResp, worker, call, limiter>>

\* a handler calls Create; expiresAt comes from the handler's clock and the
\* expiry it resolved, so it may lie at or before the database's NOW()
RepoCreate ==
    /\ \E id \in Generate, expiresAt \in 0..(MaxNow + 1), ok \in BOOLEAN :
          LET res == Create(rows, id, <<1>>, expiresAt, now, ok)
          IN  /\ rows' = res.rows
              /\ ret' = [op |-> "Create", id |-> id, ok |-> ok, err |-> res.err,
                         count |-> 0, snippet |-> res.snippet,
                         afterSweep |-> SweepReturned(ret)]
    /\ UNCHANGED <<cfg, now, req, getResp, worker, call, limiter>>

RepoGet ==
    /\ \E id \in Generate, ok \in BOOLEAN :
          LET res == Get(rows, id, now, ok)
          IN  ret' = [op |-> "Get", id |-> id, ok |-> ok, err |-> res.err,
                      count |-> 0, snippet |-> res.snippet,
                      afterSweep |-> SweepReturned(ret)]
    /\ UNCHANGED <<cfg, now, rows, req, getResp, worker, call, limiter>>

RepoDeleteExpired ==
    /\ \E ok \in BOOLEAN :
          LET res == DeleteExpired(rows, now, ok)
          IN  /\ rows' = res.rows
              /\ ret' = [op |-> "DeleteExpired", id |-> NoID, ok |-> ok,
                         err |-> res.err, count |-> res.count, snippet |-> NoSnippet,
                         afterSweep |-> SweepReturned(ret)]
    /\ UNCHANGED <<cfg, now, req, getResp, worker, call, limiter>>

RepoDelete ==
    /\ \E id \in Generate, ok \in BOOLEAN :
          LET res == Delete(rows, id, now, ok)
          IN  /\ rows' = res.rows
              /\ ret' = [op |-> "Delete", id |-> id, ok |-> ok, err |-> res.err,
                         count |-> 0, snippet |-> NoSnippet,
                         afterSweep |-> SweepReturned(ret)]
    /\ UNCHANGED <<cfg, now, req, getResp, worker, call, limiter>>

StoreNext ==
    \/ StoreTick
    \/ RepoCreate
    \/ RepoGet
    \/ RepoDeleteExpired
    \/ RepoDelete

StoreSpec == StoreInit /\ [][StoreNext]_vars

(***************************************************************************)
(* internal/api: CleanupWorker.  WorkerSpec runs the worker goroutine and  *)
(* the main goroutine that starts and stops it, on a table that holds rows *)
(* from an earlier run of the server.                                      *)
(***************************************************************************)
\* Faulty variant of cleanup: an error of DeleteExpired ends the worker, as if
\* run returned on it.
cleanup_StopOnError(w, res) ==
    IF res.err # "nil"
    THEN [w EXCEPT !.pc = "done", !.doneCh = "closed", !.ticker = "stopped",
                   !.sweeps = @ + 1, !.failed = @ + 1,
                   !.count = res.count, !.err = res.err]
    ELSE [w EXCEPT !.pc = "select", !.sweeps = @ + 1,
                   !.count = res.count, !.err = res.err]

\* cleanup, given what its DeleteExpired call returned: the error or the
\* count is logged and cleanup returns to run, which goes on to the select
cleanup(w, res) ==
    IF res.err # "nil"
    THEN [w EXCEPT !.pc = "select", !.sweeps = @ + 1, !.failed = @ + 1,
                   !.count = res.count, !.err = res.err]
    ELSE [w EXCEPT !.pc = "select", !.sweeps = @ + 1,
                   !.count = res.count, !.err = res.err]

\* rows left by an earlier run: the k-th generated id expires at time k
WorkerTable ==
    {[id |-> [i \in 1..Length |-> Alphabet[10 + k]], content |-> <<1>>,
      expires_at |-> k, created_at |-> 0] : k \in 1..NIds}

WorkerInit ==
    /\ cfg = DefaultConfig
    /\ now = 0
    /\ rows = WorkerTable
    /\ req = [r \in Req |-> NewReq]
    /\ getResp = NoGet
    /\ worker \in {NewCleanupWorker(i) : i \in 0..MaxInterval}
    /\ ret = NoRet
    /\ call = NoCall
    /\ limiter = setupRoutes(DefaultPostRateLimit, DefaultGetRateLimit)

\* a minute passes; a running ticker sends a tick every interval, and the
\* tick is dropped when the last one was not yet received
WorkerTick ==
    /\ now < MaxWorkerNow
    /\ worker.main # "crashed"
    /\ now' = now + 1
    /\ worker' = IF worker.ticker = "running"
                    /\ (now + 1 - worker.since) % worker.interval = 0
                 THEN [worker EXCEPT !.tickC = 1]
                 ELSE worker
    /\ UNCHANGED <<cfg, rows, req, getResp, ret, call, limiter>>

\* main: cleanupWorker.Start(ctx), which starts the goroutine of run
Start ==
    /\ worker.main = "init"
    /\ worker' = [worker EXCEPT !.main = "serving", !.pc = "run"]
    /\ UNCHANGED <<cfg, now, rows, req, getResp, ret, call, limiter>>

\* run: time.NewTicker(w.interval), which panics when the interval is not
\* positive; the deferred close(w.doneCh) runs and the process dies
runNewTicker ==
    /\ worker.pc = "run"
    /\ worker.main # "crashed"
    /\ worker' = IF worker.interval <= 0
                 THEN [worker EXCEPT !.pc = "panic", !.doneCh = "closed",
                                     !.main = "crashed",
                                     !.panic = "non-positive interval for NewTicker"]
                 ELSE [worker EXCEPT !.pc = "startup", !.ticker = "running",
                                     !.since = now]
    /\ UNCHANGED <<cfg, now, rows, req, getResp, ret, call, limiter>>

\* run: w.cleanup(), once at startup and once for each tick taken; its
\* DeleteExpired call fails on a pool that was closed
runCleanup ==
    /\ worker.pc \in {"startup", "tick"}
    /\ worker.main # "crashed"
    /\ \E ok \in (IF worker.main = "closed" THEN {FALSE} ELSE BOOLEAN) :
          LET res == DeleteExpired(rows, now, ok)
          IN  /\ rows' = res.rows
              /\ worker' = cleanup(worker, res)
    /\ UNCHANGED <<cfg, now, req, getResp, ret, call, limiter>>

\* run: the select receives from ticker.C
runTakeTick ==
    /\ worker.pc = "select"
    /\ worker.main # "crashed"
    /\ worker.tickC = 1
    /\ worker' = [worker EXCEPT !.pc = "tick", !.tickC = 0, !.taken = @ + 1]
    /\ UNCHANGED <<cfg, now, rows, req, getResp, ret, call, limiter>>

\* run: the select receives from the closed stopCh and run returns; the
\* deferred ticker.Stop() and close(w.doneCh) run.  (ctx is main's
\* context.Background(), whose Done channel is never ready.)
runReturn ==
    /\ worker.pc = "select"
    /\ worker.main # "crashed"
    /\ worker.stopCh = "closed"
    /\ worker' = [worker EXCEPT !.pc = "done", !.ticker = "stopped",
                                !.doneCh = "closed"]
    /\ UNCHANGED <<cfg, now, rows, req, getResp, ret, call, limiter>>

\* close(w.stopCh) by the goroutine whose position is field who: closing a
\* channel that is already closed is a runtime panic, which ends the process
closeStopCh(w, who) ==
    IF w.stopCh = "closed"
    THEN [w EXCEPT !.main = "crashed", !.panic = "close of closed channel"]
    ELSE [w EXCEPT ![who] = "stopping", !.stopCh = "closed"]

\* main: the deferred cleanupWorker.Stop() begins: close(w.stopCh)
Stop ==
    /\ worker.main = "serving"
    /\ worker' = closeStopCh(worker, "main")
    /\ UNCHANGED <<cfg, now, rows, req, getResp, ret, call, limiter>>

\* Faulty variant of StopReturn: Stop returns without receiving from doneCh.
StopReturn_NoWait ==
    /\ worker.main = "stopping"
    /\ worker' = [worker EXCEPT !.main = "stopped"]
    /\ UNCHANGED <<cfg, now, rows, req, getResp, ret, call, limiter>>

\* main: Stop receives from the closed doneCh and returns
StopReturn ==
    /\ worker.main = "stopping"
    /\ worker.doneCh = "closed"
    /\ worker' = [worker EXCEPT !.main = "stopped"]
    /\ UNCHANGED <<cfg, now, rows, req, getResp, ret, call, limiter>>

\* Faulty variant of Close: repo.Close() is deferred after cleanupWorker.Stop()
\* and so runs before it, while the worker is still running.
Close_BeforeStop ==
    /\ worker.main = "serving"
    /\ worker' = [worker EXCEPT !.main = "closed"]
    /\ UNCHANGED <<cfg, now, rows, req, getResp, ret, call, limiter>>

\* main: the deferred repo.Close() runs once the deferred Stop has returned
\* (deferred calls run last in, first out), and closes the connection pool
Close ==
    /\ worker.main = "stopped"
    /\ worker' = [worker EXCEPT !.main = "closed"]
    /\ UNCHANGED <<cfg, now, rows, req, getResp, ret, call, limiter>>

WorkerNext ==
    \/ WorkerTick
    \/ Start
    \/ runNewTicker
    \/ runCleanup
    \/ runTakeTick
    \/ runReturn
    \/ Stop
    \/ StopReturn
    \/ Close

WorkerSpec == WorkerInit /\ [][WorkerNext]_vars

\* The worker under the scheduling that Go gives it.  A goroutine that can
\* take a step is run in the end, and a DeleteExpired call returns: weak
\* fairness of the steps of run and of main.  The select of run chooses at
\* random among its ready cases, so a case that is ready each time the select
\* is reached is chosen in the end: strong fairness of runReturn.
WorkerFairSpec ==
    /\ WorkerSpec
    /\ WF_vars(runNewTicker)
    /\ WF_vars(runCleanup)
    /\ SF_vars(runReturn)
    /\ WF_vars(StopReturn)
    /\ WF_vars(Close)

\* a second goroutine calls Stop on the started worker: close(w.stopCh)
SecondStop ==
    /\ worker.main \in {"serving", "stopping", "stopped", "closed"}
    /\ worker.second = "idle"
    /\ worker' = closeStopCh(worker, "second")
    /\ UNCHANGED <<cfg, now, rows, req, getResp, ret, call, limiter>>

\* the second goroutine: Stop receives from the closed doneCh and returns
SecondStopReturn ==
    /\ worker.second = "stopping"
    /\ worker.main # "crashed"
    /\ worker.doneCh = "closed"
    /\ worker' = [worker EXCEPT !.second = "stopped"]
    /\ UNCHANGED <<cfg, now, rows, req, getResp, ret, call, limiter>>

StopTwiceNext ==
    \/ WorkerNext
    \/ SecondStop
    \/ SecondStopReturn

\* the worker with two callers of Stop
StopTwiceSpec == WorkerInit /\ [][StopTwiceNext]_vars

(***************************************************************************)
(* The routes taken with their limiters: RateSpec serves POST / and        *)
(* GET /{id} requests of a few clients, each request from the limiter of   *)
(* its route group to its answer, with the passing of time.                *)
(***************************************************************************)
\* the settings tried for POST_RATE_LIMIT and GET_RATE_LIMIT
RateLimits == {<<1, 2>>, <<DefaultPostRateLimit, 1>>}

RateConfigs ==
    {DefaultConfig @@ [PostRateLimit |-> l[1], GetRateLimit |-> l[2]] : l \in RateLimits}

\* the clients that send requests: one alone under the default limit
RateClients(c) ==
    IF c.PostRateLimit = DefaultPostRateLimit THEN {1} ELSE Keys

\* no request was served in this state.  served[class][k] is the number of
\* requests of client k that reached the handler of the class in the
\* current minute.
NoServe(served) ==
    [fn |-> "none", key |-> 0, allowed |-> FALSE, retryAfter |-> 0, status |-> 0,
     snippetID |-> NoID, served |-> served]

NoneServed == [class \in {"post", "get"} |-> [k \in Keys |-> 0]]

RateInit ==
    /\ cfg \in RateConfigs
    /\ now = 0
    /\ rows = {}
    /\ req = [r \in Req |-> NewReq]
    /\ getResp = NoGet
    /\ worker = NewCleanupWorker(1)
    /\ ret = NoRet
    /\ call = NoServe(NoneServed)
    /\ limiter = setupRoutes(cfg.PostRateLimit, cfg.GetRateLimit)

\* a part of a minute passes
RateTick ==
    /\ (limiter.part + 1 < WindowParts) \/ (now < MaxRateNow)
    /\ limiter' = [limiter EXCEPT !.part = (@ + 1) % WindowParts]
    /\ now' = IF limiter.part + 1 = WindowParts THEN now + 1 ELSE now
    /\ call' = NoServe(IF limiter.part + 1 = WindowParts THEN NoneServed
                       ELSE call.served)
    /\ UNCHANGED <<cfg, rows, req, getResp, worker, ret>>

\* Faulty variant of ServePost: POST / is routed outside the group that has
\* the limiter, so handleCreate runs for every request.
ServePost_Ungated(key) ==
    /\ \E body \in {<<>>, <<1>>}, gen \in Generate, storeOK \in BOOLEAN :
       \E d \in {allow(limiter.post, key, now, limiter.part)} :
       \E out \in {handleCreate(cfg, rows, <<>>, body, TRUE, gen, storeOK, now)} :
          /\ limiter' = [limiter EXCEPT !.post = d.limiter]
          /\ rows' = out.rows
          /\ call' = [fn |-> "POST", key |-> key, allowed |-> d.allowed,
                      retryAfter |-> d.retryAfter,
                      status |-> IF d.allowed THEN out.req.resp.status
                                 ELSE tooManyRequests.status,
                      snippetID |-> out.req.snippetID,
                      served |-> [call.served EXCEPT !["post"][key] = @ + 1]]
    /\ UNCHANGED <<cfg, now, req, getResp, worker, ret>>

\* POST / of client key: the limiter of the POST group, then handleCreate
ServePost(key) ==
    /\ \E d \in {allow(limiter.post, key, now, limiter.part)} :
          /\ limiter' = [limiter EXCEPT !.post = d.limiter]
          /\ IF ~d.allowed
             THEN /\ rows' = rows
                  /\ call' = [fn |-> "POST", key |-> key, allowed |-> FALSE,
                              retryAfter |-> d.retryAfter,
                              status |-> tooManyRequests.status,
                              snippetID |-> NoID, served |-> call.served]
             ELSE \E body \in {<<>>, <<1>>}, gen \in Generate, storeOK \in BOOLEAN :
                  \E out \in {handleCreate(cfg, rows, <<>>, body, TRUE, gen,
                                            storeOK, now)} :
                     /\ rows' = out.rows
                     /\ call' = [fn |-> "POST", key |-> key, allowed |-> TRUE,
                                 retryAfter |-> 0,
                                 status |-> out.req.resp.status,
                                 snippetID |-> out.req.snippetID,
                                 served |-> [call.served EXCEPT
                                                !["post"][key] = @ + 1]]
    /\ UNCHANGED <<cfg, now, req, getResp, worker, ret>>

\* GET /{id} of client key: the limiter of the GET group, then handleGet
ServeGet(key) ==
    /\ \E d \in {allow(limiter.get, key, now, limiter.part)} :
          /\ limiter' = [limiter EXCEPT !.get = d.limiter]
          /\ IF ~d.allowed
             THEN call' = [fn |-> "GET", key |-> key, allowed |-> FALSE,
                           retryAfter |-> d.retryAfter,
                           status |-> tooManyRequests.status,
                           snippetID |-> NoID, served |-> call.served]
             ELSE \E id \in Generate, ok \in BOOLEAN :
                     call' = [fn |-> "GET", key |-> key, allowed |-> TRUE,
                              retryAfter |-> 0,
                              status |-> handleGet(rows, id, now, ok).status,
                              snippetID |-> NoID,
                              served |-> [call.served EXCEPT !["get"][key] = @ + 1]]
    /\ UNCHANGED <<cfg, now, rows, req, getResp, worker, ret>>

RateNext ==
    \/ RateTick
    \/ \E key \in RateClients(cfg) : ServePost(key)
    \/ \E key \in RateClients(cfg) : ServeGet(key)

RateSpec == RateInit /\ [][RateNext]_vars

(***************************************************************************)
(* Vocabulary of the properties                                            *)
(***************************************************************************)
\* request r was answered 201
Published(r) == req[r].pc = "done" /\ req[r].resp.status = 201

\* the table row that the successful Create of request r inserted
RowOf(r) ==
    [id |-> req[r].snippet.ID, content |-> req[r].snippet.Content,
     expires_at |-> req[r].snippet.ExpiresAt, created_at |-> req[r].snippet.CreatedAt]

\* the entry that request r published is in the table and has not expired
LiveEntry(r) == Published(r) /\ RowOf(r) \in rows /\ RowOf(r).expires_at > now

\* a GET was answered in this state and its store call did not fail
Answered == getResp.status # 0 /\ getResp.status # 500

\* what the client sees of a GET response
Outcome(g) == [status |-> g.status, code |-> g.code, message |-> g.message, body |-> g.body]

(***************************************************************************)
(* C1  Visibility: a GET of a published id returns the content at every    *)
(* time strictly before created_at + D and is absent at every time at or   *)
(* after created_at + D, whether or not the sweep has run.  (Stated for an *)
(* id that one request only has published.)                                *)
(***************************************************************************)
C1_Visibility ==
    \A r \in Req :
        ( /\ Published(r)
          /\ Answered
          /\ getResp.id = req[r].resp.id
          /\ \A q \in Req \ {r} : ~(Published(q) /\ req[q].resp.id = req[r].resp.id) )
        => IF now < req[r].snippet.CreatedAt + req[r].expiryDuration
           THEN getResp.status = 200 /\ getResp.body = req[r].body
           ELSE getResp.status # 200

(***************************************************************************)
(* C2  Indistinguishability: a GET of a malformed id, of a well-formed id  *)
(* that was never created and of an expired id give the identical outcome: *)
(* the answer to an absent id equals the answer that every other absent id *)
(* gets in the same state.                                                 *)
(***************************************************************************)
C2_Indistinguishable ==
    (Answered /\ getResp.status # 200)
    => \A id \in GetIds :
          handleGet(rows, id, now, TRUE).status # 200
          => handleGet(rows, id, now, TRUE) = Outcome(getResp)

(***************************************************************************)
(* C3  Uniqueness: no two rows of the table share an id, and the ids of    *)
(* two published entries that are live at the same time differ.            *)
(***************************************************************************)
C3_Uniqueness ==
    /\ \A x, y \in rows : x.id = y.id => x = y
    /\ \A r, q \in Req :
          (r # q /\ LiveEntry(r) /\ LiveEntry(q)) => req[r].resp.id # req[q].resp.id

\* two requests were answered 201 and both entries are live
C3_Witness ==
    \E r, q \in Req : r # q /\ LiveEntry(r) /\ LiveEntry(q)

C5_CollisionRecovered ==
    \A r \in Req :
        (req[r].pc = "done" /\ req[r].err = "duplicate") => req[r].resp.status = 201

(***************************************************************************)
(* C6  Bounded allocation: a POST whose attempts all met a taken id fails  *)
(* with an outcome distinct from the one a storage failure gives.          *)
(***************************************************************************)
C6_ExhaustionDistinct ==
    \A r \in Req :
        (req[r].pc = "done" /\ req[r].err = "duplicate")
        => req[r].resp #
           handleCreateEnd(req[r], Create(rows, req[r].snippetID, req[r].content,
                                          req[r].expiresAt, now, FALSE)).resp

(***************************************************************************)
(* C7  Round trip: a POST answered 201 that carried no expiry text got the *)
(* configured default lifetime, and a GET of the returned id before the    *)
(* returned expiry returns exactly the bytes that were posted.             *)
(***************************************************************************)
C7_RoundTrip ==
    \A r \in Req :
        (Published(r) /\ req[r].expiryStr = <<>>)
        => /\ req[r].expiryDuration = cfg.DefaultExpiry
           /\ Len(req[r].body) >= 1 /\ Len(req[r].body) <= cfg.MaxContentSize
           /\ (Answered /\ getResp.id = req[r].resp.id /\ now < req[r].resp.expires_at)
              => (getResp.status = 200 /\ getResp.body = req[r].body)

\* such a GET was answered with the posted bytes
C7_Witness ==
    \E r \in Req :
        /\ Published(r) /\ req[r].expiryStr = <<>>
        /\ getResp.id = req[r].resp.id /\ now < req[r].resp.expires_at
        /\ getResp.status = 200 /\ getResp.body = req[r].body

(***************************************************************************)
(* C8  Expiry exactness: for a POST with an accepted expiry text of        *)
(* duration D the stored expires_at is the stored created_at plus D, and   *)
(* the expires_at of the response is the stored one.                       *)
(***************************************************************************)
C8_ExpiryExact ==
    \A r \in Req :
        (Published(r) /\ req[r].expiryStr # <<>>)
        => /\ req[r].expiryDuration = Parse(req[r].expiryStr).d
           /\ RowOf(r).expires_at = RowOf(r).created_at + req[r].expiryDuration
           /\ req[r].resp.expires_at = RowOf(r).expires_at

(***************************************************************************)
(* C9  Every stored row has expires_at strictly greater than created_at.   *)
(***************************************************************************)
C9_ExpiresAfterCreated ==
    \A x \in rows : x.expires_at > x.created_at

(***************************************************************************)
(* C10 Reject-before-allocate: a POST rejected for its content or for its  *)
(* expiry text has generated no id and called no store method, and the     *)
(* table is the same after the rejection as before.                        *)
(***************************************************************************)
C10_RejectBeforeAllocate ==
    [][\A r \in Req :
          ( /\ req[r].pc = "idle"
            /\ req'[r].pc = "done"
            /\ req'[r].resp.code \in {"EMPTY_CONTENT", "PAYLOAD_TOO_LARGE", "INVALID_EXPIRY"} )
          => /\ rows' = rows
             /\ req'[r].snippetID = NoID
             /\ req'[r].err = "none"
             /\ req'[r].snippet = NoSnippet]_vars

\* a POST was rejected as too large while the table holds another request's row
C10_Witness ==
    \E r, q \in Req :
        /\ req[r].pc = "done" /\ req[r].resp.code = "PAYLOAD_TOO_LARGE"
        /\ req[r].snippetID = NoID
        /\ Published(q) /\ RowOf(q) \in rows

(***************************************************************************)
(* Vocabulary of the properties about single calls                         *)
(***************************************************************************)
\* the call was a POST / whose expiry text, if any, was accepted and whose
\* body could be read
SizeDecides ==
    /\ call.fn = "handleCreate"
    /\ call.arg.readOK
    /\ \/ call.arg.expiryStr = <<>>
       \/ /\ Parse(call.arg.expiryStr).err = ""
          /\ Validate(Parse(call.arg.expiryStr).d, cfg.MinExpiry, cfg.MaxExpiry) = ""

\* nothing else failed in the call: an id was generated, it was free and the
\* INSERT ran
NothingFailed ==
    /\ call.arg.gen # NoID
    /\ call.arg.storeOK
    /\ \A x \in call.arg.table : x.id # call.arg.gen

NumberOf(s) == SubSeq(s, 1, Len(s) - 1)

\* the last character of a text
UnitOf(s) == s[Len(s)]

\* a string of digits without its leading zeros
RECURSIVE StripZeros(_)
StripZeros(digits) ==
    IF digits # <<>> /\ digits[1] = 48 THEN StripZeros(Tail(digits)) ELSE digits

\* an unsigned non-zero decimal integer immediately followed by one unit
\* letter of m, h, d, w
InGrammar(s) ==
    /\ Len(s) >= 2
    /\ UnitOf(s) \in {109, 104, 100, 119}
    /\ \A i \in 1..(Len(s) - 1) : s[i] \in 48..57
    /\ StripZeros(NumberOf(s)) # <<>>

\* "9223372036854775807", the decimal digits of 2^63 - 1
MaxInt64Text ==
    <<57, 50, 50, 51, 51, 55, 50, 48, 51, 54, 56, 53, 52, 55, 55, 53, 56, 48, 55>>

\* a precedes or equals b in the order of the dictionary
LexLeq(a, b) ==
    \/ a = b
    \/ \E i \in 1..Len(a) : a[i] < b[i] /\ \A j \in 1..(i - 1) : a[j] = b[j]

\* the number that the digits write is at most 2^63 - 1
FitsInt64(digits) ==
    LET sig == StripZeros(digits)
    IN  \/ Len(sig) < Len(MaxInt64Text)
        \/ Len(sig) = Len(MaxInt64Text) /\ LexLeq(sig, MaxInt64Text)

(***************************************************************************)
(* C12 Duration grammar: Parse accepts a text exactly when it is an        *)
(* unsigned non-zero decimal integer immediately followed by one unit      *)
(* letter of m, h, d, w, and rejects every other text.                     *)
(***************************************************************************)
C12_Grammar ==
    (call.fn = "Parse") => (call.out.err = "" <=> InGrammar(call.arg))

(***************************************************************************)
(* C12 as it holds: Parse accepts a text exactly when it is a decimal      *)
(* integer between 1 and 2^63 - 1, leading zeros allowed, immediately      *)
(* followed by one unit letter of m, h, d, w; every other text, a greater  *)
(* integer included, is rejected with an error and the duration 0.         *)
(***************************************************************************)
C12_GrammarInRange ==
    (call.fn = "Parse") =>
        /\ call.out.err = "" <=> (InGrammar(call.arg) /\ FitsInt64(NumberOf(call.arg)))
        /\ call.out.err # "" => call.out.d = 0

\* Parse accepted the text of 2^63 - 1 minutes
C12_Witness ==
    /\ call.fn = "Parse"
    /\ NumberOf(call.arg) = MaxInt64Text
    /\ call.out.err = ""

(***************************************************************************)
(* C13 Duration value: for every text that Parse accepts, with integer     *)
(* part N and unit u, the duration returned is exactly N times the unit    *)
(* and is strictly positive: the quotient of the duration by the unit,     *)
(* written in decimal, is N without its leading zeros.                     *)
(***************************************************************************)
C13_ExactValue ==
    (call.fn = "Parse" /\ call.out.err = "") =>
        LET u == unitMultipliers(UnitOf(call.arg))
        IN  /\ call.out.d > 0
            /\ call.out.d % u = 0
            /\ FormatUint(call.out.d \div u) = StripZeros(NumberOf(call.arg))

\* the lifetime that the text s asks for, N times its unit, lies in min..max
RequestedWithin(s, min, max) ==
    /\ InGrammar(s)
    /\ \E n \in min..max :
          /\ n > 0
          /\ n % unitMultipliers(UnitOf(s)) = 0
          /\ FormatUint(n \div unitMultipliers(UnitOf(s))) = StripZeros(NumberOf(s))

(***************************************************************************)
(* C14 Expiry bounds: Validate(d, min, max) returns an error exactly when  *)
(* d < min or d > max; and a POST with an expiry text stores an entry only *)
(* when the lifetime asked for lies in MinExpiry..MaxExpiry and is         *)
(* answered 400 otherwise.                                                 *)
(***************************************************************************)
C14_ExpiryBounds ==
    /\ (call.fn = "Validate") =>
          (call.out # "" <=> (call.arg.d < call.arg.min \/ call.arg.d > call.arg.max))
    /\ (call.fn = "handleCreate" /\ call.arg.expiryStr # <<>>) =>
          IF RequestedWithin(call.arg.expiryStr, cfg.MinExpiry, cfg.MaxExpiry)
          THEN call.out.resp.code # "INVALID_EXPIRY"
          ELSE /\ call.out.resp.status = 400
               /\ rows = call.arg.table

(***************************************************************************)
(* C15 Duration round trip: for every duration d that Format renders,      *)
(* Parse(Format(d)) succeeds and returns d, and the unit that Format       *)
(* writes is the largest of w, d, h, m that divides d evenly.              *)
(***************************************************************************)
C15_RoundTrip ==
    (call.fn = "Format") =>
        LET u == unitMultipliers(UnitOf(call.out))
        IN  /\ Parse(call.out) = [d |-> call.arg, err |-> ""]
            /\ call.arg % u = 0
            /\ \A v \in {Minute, Hour, 24 * Hour, 7 * 24 * Hour} :
                  v > u => call.arg % v # 0

(***************************************************************************)
(* C15 as it holds: for every duration d of a positive whole number of     *)
(* minutes, Parse(Format(d)) succeeds and returns d, and the unit that     *)
(* Format writes is the largest of w, d, h, m that divides d evenly.       *)
(***************************************************************************)
C15_RoundTripPositive ==
    (call.fn = "Format" /\ call.arg > 0) =>
        LET u == unitMultipliers(UnitOf(call.out))
        IN  /\ Parse(call.out) = [d |-> call.arg, err |-> ""]
            /\ call.arg % u = 0
            /\ \A v \in {Minute, Hour, 24 * Hour, 7 * 24 * Hour} :
                  v > u => call.arg % v # 0

\* seven days were rendered as "1w"
C15_Witness ==
    /\ call.fn = "Format"
    /\ call.arg = 7 * 24 * Hour
    /\ call.out = <<49, 119>>

(***************************************************************************)
(* C16 Identifier shape: IsValid(s) is true exactly when s has 12          *)
(* characters and each of them is one of the 62 characters of the          *)
(* alphabet, whatever the table holds; and the id of every 201 response    *)
(* satisfies IsValid.                                                      *)
(***************************************************************************)
C16_IdentifierShape ==
    /\ (call.fn = "IsValid") =>
          (call.out <=> /\ Len(call.arg) = 12
                        /\ \A i \in 1..Len(call.arg) :
                              \E k \in DOMAIN Alphabet : Alphabet[k] = call.arg[i])
    /\ (call.fn = "handleCreate" /\ call.out.resp.status = 201) =>
          IsValid(call.out.resp.id)

\* twelve characters, one of them '@', were found invalid while the table
\* holds a row
C16_Witness ==
    /\ call.fn = "IsValid"
    /\ Len(call.arg) = 12
    /\ \E i \in 1..12 : call.arg[i] = 64
    /\ call.out = FALSE
    /\ rows # {}

(***************************************************************************)
(* Vocabulary of the properties about Repository calls                     *)
(***************************************************************************)
\* the rows of a table that have expired at time t
Expired(table, t) == {x \in table : x.expires_at <= t}

(***************************************************************************)
(* C17 Bulk eviction: a DeleteExpired call evaluated at time now removes   *)
(* every row with expires_at <= now and no row with expires_at > now and   *)
(* returns the number of rows it removed (a failed call removes nothing    *)
(* and returns 0); whatever a Get at the same instant returns of the table *)
(* before the call it returns of the table after it, in every interleaving *)
(* with Create and Get calls.                                              *)
(***************************************************************************)
C17_BulkEviction ==
    [][(ret'.op = "DeleteExpired") =>
          /\ (ret'.err = "nil") =>
                /\ rows' = rows \ Expired(rows, now)
                /\ ret'.count = Cardinality(rows) - Cardinality(rows')
          /\ (ret'.err # "nil") => (rows' = rows /\ ret'.count = 0)
          /\ \A id \in Generate :
                Get(rows, id, now, TRUE).snippet # NoSnippet
                => Get(rows', id, now, TRUE) = Get(rows, id, now, TRUE)]_vars

\* a sweep removed a row and left a live one
C17_Witness ==
    /\ ret.op = "DeleteExpired"
    /\ ret.count >= 1
    /\ \E x \in rows : x.expires_at > now

(***************************************************************************)
(* C18 Eviction idempotence: every DeleteExpired call returns a count that *)
(* is not negative; a call whose statement ran and matched nothing returns *)
(* 0 and no error; and a call that follows a successful call at once, no   *)
(* other call and no time in between, returns 0 and leaves the table as it *)
(* was.                                                                    *)
(***************************************************************************)
C18_EvictionIdempotent ==
    [][(ret'.op = "DeleteExpired") =>
          /\ ret'.count >= 0
          /\ (ret'.ok /\ Expired(rows, now) = {}) =>
                (ret'.err = "nil" /\ ret'.count = 0 /\ rows' = rows)
          /\ (SweepReturned(ret) /\ ret'.ok) =>
                (ret'.err = "nil" /\ ret'.count = 0 /\ rows' = rows)]_vars

\* a sweep that followed a successful sweep at once returned 0 while the
\* table holds a row
C18_Witness ==
    /\ ret.op = "DeleteExpired" /\ ret.err = "nil" /\ ret.count = 0
    /\ ret.afterSweep
    /\ rows # {}

(***************************************************************************)
(* C19 Sweeper schedule: no sweep is made before Start; once the worker's  *)
(* goroutine is past its start-up it has made one sweep, before taking any *)
(* tick, and from then on exactly one sweep for each tick it has taken,    *)
(* the sweep of the tick just taken being the one still to make.           *)
(***************************************************************************)
C19_SweeperSchedule ==
    /\ (worker.pc \in {"new", "run", "startup"}) =>
          (worker.sweeps = 0 /\ worker.taken = 0)
    /\ (worker.pc = "tick") => (worker.sweeps = worker.taken)
    /\ (worker.pc \notin {"new", "run", "startup", "tick"}) =>
          (worker.sweeps = 1 + worker.taken)

(***************************************************************************)
(* C20 Sweep failure is absorbed: when the DeleteExpired call of a sweep   *)
(* returns an error the worker goes on to its select, its goroutine and    *)
(* the process alive and doneCh open, and the table, hence the answer of   *)
(* every GET and POST, is as before the sweep; DeleteExpired is called     *)
(* only at start-up and after a tick was taken, one call each, so a failed *)
(* sweep is not repeated before the next tick; and a tick is taken only    *)
(* from the select, whatever the last sweep returned.                      *)
(***************************************************************************)
C20_FailureAbsorbed ==
    [][/\ (worker'.failed # worker.failed) =>
             /\ worker'.sweeps = worker.sweeps + 1
             /\ worker'.err # "nil"
             /\ worker'.pc = "select"
             /\ worker'.doneCh = "open" /\ worker.doneCh = "open"
             /\ worker'.main = worker.main /\ worker'.main # "crashed"
             /\ worker'.ticker = "running"
             /\ rows' = rows
             /\ \A id \in GetIds :
                   handleGet(rows', id, now', TRUE) = handleGet(rows, id, now, TRUE)
             /\ \A body \in Bodies, gen \in Generate :
                   handleCreate(cfg', rows', <<>>, body, TRUE, gen, TRUE, now')
                   = handleCreate(cfg, rows, <<>>, body, TRUE, gen, TRUE, now)
       /\ (worker'.sweeps # worker.sweeps) =>
             /\ worker'.sweeps = worker.sweeps + 1
             /\ worker.pc \in {"startup", "tick"}
             /\ worker'.pc = "select"
             /\ (worker'.err # "nil") <=> (worker'.failed = worker.failed + 1)
       /\ (worker'.pc = "tick" /\ worker.pc # "tick") =>
             /\ worker.pc = "select"
             /\ worker.tickC = 1 /\ worker'.tickC = 0
             /\ worker'.taken = worker.taken + 1]_vars

\* a sweep failed, the worker took the next tick and the sweep of that tick
\* succeeded and removed a row
C20_Witness ==
    /\ worker.failed >= 1
    /\ worker.pc = "select"
    /\ worker.taken >= 1
    /\ worker.err = "nil"
    /\ worker.count >= 1
    /\ worker.sweeps = worker.failed + 1

\* a DeleteExpired call of the worker is in flight: run is in cleanup
SweepInFlight(w) == w.pc \in {"startup", "tick"}

\* Stop has returned to main
StopHasReturned(w) == w.main \in {"stopped", "closed"}

(***************************************************************************)
(* C21 Stop is awaitable: in every step that leaves main past the return   *)
(* of Stop (the step in which Stop returns, and every later step) the      *)
(* worker's run has returned and closed doneCh, no DeleteExpired call is   *)
(* in flight, and the step neither makes a sweep nor takes a tick.         *)
(***************************************************************************)
C21_StopAwaitable ==
    [][StopHasReturned(worker') =>
          /\ worker'.pc = "done"
          /\ worker'.doneCh = "closed"
          /\ ~SweepInFlight(worker')
          /\ worker'.sweeps = worker.sweeps
          /\ worker'.taken = worker.taken
          /\ rows' = rows]_vars

\* Stop returned on a worker that had swept at start-up and on a tick
C21_Witness ==
    /\ worker.main = "stopped"
    /\ worker.taken >= 1
    /\ worker.sweeps >= 2

(***************************************************************************)
(* C22 Stop is cooperative: once stopCh is closed the worker begins no new *)
(* sweep, that is, it takes no tick and leaves the select only by          *)
(* returning, also when a tick is waiting in ticker.C; and a sweep that is *)
(* in flight when stopCh is closed is not interrupted: the worker stays in *)
(* cleanup until its DeleteExpired call has returned, and then goes to the *)
(* select.                                                                 *)
(***************************************************************************)
C22_StopCooperative ==
    [][(worker.stopCh = "closed" /\ worker'.main # "crashed") =>
          /\ worker'.taken = worker.taken
          /\ (worker.pc = "select") => (worker'.pc \in {"select", "done"})
          /\ SweepInFlight(worker) =>
                \/ worker'.pc = worker.pc /\ worker'.sweeps = worker.sweeps
                \/ worker'.pc = "select" /\ worker'.sweeps = worker.sweeps + 1]_vars

(***************************************************************************)
(* C28 Stop terminates: whenever main has called Stop on the started       *)
(* worker (stopCh is closed and main waits for doneCh), Stop returns in    *)
(* the end, given that goroutines are scheduled and every DeleteExpired    *)
(* call returns.                                                           *)
(***************************************************************************)
C28_StopTerminates ==
    (worker.main = "stopping") ~> StopHasReturned(worker)

\* the same, for a worker whose interval is positive
C28_StopTerminatesPositive ==
    (worker.main = "stopping" /\ worker.interval > 0) ~> StopHasReturned(worker)

(***************************************************************************)
(* C29 Shutdown ordering: in every step that ends with the connection pool *)
(* closed by main's deferred repo.Close(), Stop has returned before, the   *)
(* worker's run has returned and doneCh is closed, and the step makes no   *)
(* sweep and takes no tick: no DeleteExpired call is made on a closed      *)
(* pool.                                                                   *)
(***************************************************************************)
C29_ShutdownOrdering ==
    [][(worker'.main = "closed") =>
          /\ worker.main \in {"stopped", "closed"}
          /\ worker'.pc = "done"
          /\ worker'.doneCh = "closed"
          /\ worker'.stopCh = "closed"
          /\ ~SweepInFlight(worker')
          /\ worker'.sweeps = worker.sweeps
          /\ worker'.taken = worker.taken
          /\ worker'.failed = worker.failed]_vars

\* the pool is closed after a worker that swept at start-up and on a tick,
\* and was stopped while a sweep was still to make
C29_Witness ==
    /\ worker.main = "closed"
    /\ worker.pc = "done"
    /\ worker.taken >= 1
    /\ worker.sweeps >= 2

(***************************************************************************)
(* C30 Repeated Stop is safe: with two callers of Stop on the same started *)
(* worker, one after the other or at the same time, no call panics, and    *)
(* once both calls have returned the worker is stopped: run has returned   *)
(* and doneCh is closed.                                                   *)
(***************************************************************************)
C30_RepeatedStopSafe ==
    /\ worker.panic # "close of closed channel"
    /\ (StopHasReturned(worker) /\ worker.second = "stopped") =>
          (worker.pc = "done" /\ worker.doneCh = "closed")

\* the expiry text of a POST is given and is malformed or out of range
InvalidExpiryText(s, c) ==
    /\ s # <<>>
    /\ \/ Parse(s).err # ""
       \/ Validate(Parse(s).d, c.MinExpiry, c.MaxExpiry) # ""

(***************************************************************************)
(* C25 Validation order of publish: a POST whose body was read, whose      *)
(* content is empty or longer than MaxContentSize and whose expiry text is *)
(* malformed or out of range is answered with the error of the content:    *)
(* 400 EMPTY_CONTENT for an empty body, 413 PAYLOAD_TOO_LARGE for one that *)
(* is too long.                                                            *)
(***************************************************************************)
C25_ContentBeforeExpiry ==
    ( /\ call.fn = "handleCreate"
      /\ call.arg.readOK
      /\ InvalidExpiryText(call.arg.expiryStr, cfg) )
    => /\ (Len(call.arg.body) = 0) =>
              (call.out.resp.status = 400 /\ call.out.resp.code = "EMPTY_CONTENT")
       /\ (Len(call.arg.body) > cfg.MaxContentSize) =>
              (call.out.resp.status = 413 /\ call.out.resp.code = "PAYLOAD_TOO_LARGE")

\* a row of the table holds the id
Held(table, id) == \E x \in table : x.id = id

\* a live row of the table holds the id
HeldLive(table, id, t) == \E x \in table : x.id = id /\ x.expires_at > t

(***************************************************************************)
(* C26 Identifier reuse: a Create whose statement was executed fails as a  *)
(* duplicate exactly when a live row (expires_at > now) holds the id, and  *)
(* succeeds otherwise; so a Create of an id for which Get reports no       *)
(* snippet succeeds.                                                       *)
(***************************************************************************)
C26_IdentifierReuse ==
    [][(ret'.op = "Create" /\ ret'.ok) =>
          /\ (ret'.err = "duplicate") <=> HeldLive(rows, ret'.id, now)
          /\ (ret'.err = "nil") <=> ~HeldLive(rows, ret'.id, now)
          /\ (Get(rows, ret'.id, now, TRUE).snippet = NoSnippet) =>
                (ret'.err = "nil")]_vars

(***************************************************************************)
(* C26 as amended: a Create whose statement was executed fails as a        *)
(* duplicate exactly when a row of the table, live or expired and not yet  *)
(* swept, holds the id, and then leaves the table as it was; otherwise it  *)
(* succeeds and inserts the row.  So an id that was never used, or whose   *)
(* row was removed, can be created, and an id whose row has expired can be *)
(* created once the row is removed.                                        *)
(***************************************************************************)
C26_IdentifierReuseRows ==
    [][(ret'.op = "Create" /\ ret'.ok) =>
          /\ (ret'.err = "duplicate") <=> Held(rows, ret'.id)
          /\ (ret'.err = "nil") <=> ~Held(rows, ret'.id)
          /\ (ret'.err = "duplicate") => (rows' = rows)
          /\ (ret'.err = "nil") =>
                /\ Held(rows', ret'.id)
                /\ rows' \ rows # {}
                /\ \A x \in rows' \ rows : x.id = ret'.id]_vars

\* a Create was refused as a duplicate of a row that has expired and is still
\* in the table, while Get reports the id absent
C26_Witness ==
    /\ ret.op = "Create" /\ ret.ok
    /\ ret.err = "duplicate"
    /\ Held(rows, ret.id) /\ ~HeldLive(rows, ret.id, now)
    /\ Get(rows, ret.id, now, TRUE).snippet = NoSnippet

(***************************************************************************)
(* C27 Immutability: every step of the store either inserts one row whose  *)
(* id no row held, or removes rows, or leaves the table as it was; a row   *)
(* that stays in the table keeps its id, content, created_at and           *)
(* expires_at, and no two rows ever share an id.                           *)
(***************************************************************************)
C27_Immutability ==
    [][/\ \A y \in rows' : Held(rows, y.id) => y \in rows
       /\ \A y, z \in rows' : (y.id = z.id) => (y = z)
       /\ \/ rows' \subseteq rows
          \/ \E y \in rows' : ~Held(rows, y.id) /\ rows' = rows \cup {y}]_vars

\* a row that was created stayed in the table, unchanged, while another id
\* was created and deleted and a sweep ran; the last call was a Delete that
\* removed a row
C27_Witness ==
    /\ ret.op = "Delete" /\ ret.err = "nil"
    /\ ~Held(rows, ret.id)
    /\ rows # {}
    /\ now >= 1

(***************************************************************************)
(* Vocabulary of the properties about the rate limiters                    *)
(***************************************************************************)
\* the operation class of the request served in call c
ClassOf(c) == IF c.fn = "POST" THEN "post" ELSE "get"

\* the configured threshold of an operation class
Threshold(c, class) == IF class = "post" THEN c.PostRateLimit ELSE c.GetRateLimit

\* a request is answered in the step
Serves(c) == c.fn \in {"POST", "GET"}

(***************************************************************************)
(* C23 Admission threshold: for every client and operation class the       *)
(* number of requests that reached the handler in the current minute never *)
(* exceeds the threshold of the class; a request is allowed exactly when   *)
(* fewer than the threshold were allowed before it in the same minute (so  *)
(* with POST_RATE_LIMIT = 30 the first 30 POSTs of a client are allowed    *)
(* and the 31st is denied, and the first request of the next minute is     *)
(* allowed again), and a denied request is answered 429 with a retry-after *)
(* value that is strictly positive.                                        *)
(***************************************************************************)
C23_AdmissionThreshold ==
    [][/\ \A class \in {"post", "get"}, k \in Keys :
             call'.served[class][k] <= Threshold(cfg, class)
       /\ Serves(call') =>
             LET class  == ClassOf(call')
                 k      == call'.key
                 before == call.served[class][k]
             IN  /\ call'.allowed <=> (before < Threshold(cfg, class))
                 /\ call'.allowed =>
                       (call'.served[class][k] = before + 1 /\ call'.status # 429)
                 /\ ~call'.allowed =>
                       /\ call'.served = call.served
                       /\ call'.status = 429
                       /\ call'.retryAfter > 0
                       /\ call'.retryAfter <= WindowParts]_vars

\* under the default limit of 30, in the second minute, a client's POST is
\* denied after 30 of its POSTs were allowed in that minute
C23_Witness ==
    /\ cfg.PostRateLimit = DefaultPostRateLimit
    /\ now = 1
    /\ call.fn = "POST" /\ ~call.allowed
    /\ call.served["post"][call.key] = DefaultPostRateLimit
    /\ call.retryAfter > 0

(***************************************************************************)
(* C24 Admission gate ordering: every POST and every GET is first counted  *)
(* or denied by the limiter of its route group, and its handler runs only  *)
(* when the limiter allowed it; a denied request is answered 429, no id is *)
(* generated for it and the table is left as it was, and only an allowed   *)
(* POST changes the table.                                                 *)
(***************************************************************************)
C24_GateOrdering ==
    [][/\ Serves(call') =>
             LET class == ClassOf(call')
                 k     == call'.key
                 old   == limiter[class]
                 new   == limiter'[class]
             IN  /\ new.window[k] = now
                 /\ call'.allowed <=>
                       (new.count[k] = 1 + (IF old.window[k] = now THEN old.count[k]
                                            ELSE 0))
                 /\ ~call'.allowed =>
                       /\ call'.status = 429
                       /\ call'.snippetID = NoID
                       /\ rows' = rows
                 /\ call'.allowed => (call'.status # 429)
       /\ (rows' # rows) => (call'.fn = "POST" /\ call'.allowed /\ call'.status = 201)]_vars

\* a POST was denied while the table held a row published before
C24_Witness ==
    /\ call.fn = "POST" /\ ~call.allowed
    /\ call.status = 429
    /\ rows # {}

====
